---- MODULE Spec2Model ----
(***************************************************************************)
(* State-machine model of the Biohacking-Optimizer API: the users,         *)
(* daily_entries and predictions tables, the identity gate                 *)
(* (api/auth.py), the auth router (api/routers/auth.py) and the entries    *)
(* router (api/routers/entries.py).                                        *)
(*                                                                         *)
(* create_entry is modelled in two steps, the Entry commit and the         *)
(* refresh-and-return, so that other requests can be served between the    *)
(* commit and the response.  Every other handler is one atomic step.       *)
(* The entries router is taken as mounted on the application.              *)
(***************************************************************************)
EXTENDS Integers, Sequences, FiniteSets, TLC

\* ---------------------------------------------------------------- bounds
MaxUsers == 2
MaxEntries == 2

\* ------------------------------------------------------------ input sets
Emails == {"a@example.com", "b@example.com"}
Passwords == {"ValidPass123!"}
LoginPasswords == Passwords \cup {"wrong"}

\* Credentials that the identity gate rejects without a user lookup.
BadCredentials == {"none", "invalid", "expired"}

\* Request bodies that pass EntryCreate validation.  supplement_intake
\* "null" stands for the JSON null / Python None.
ValidPayloads ==
    { [date |-> 22, sleep_hours |-> 7, workout_intensity |-> "moderate",
       supplement_intake |-> "magnesium", screen_time |-> 4, stress_level |-> 3],
      [date |-> 20, sleep_hours |-> 8, workout_intensity |-> "high",
       supplement_intake |-> "null", screen_time |-> 2, stress_level |-> 1] }

\* How the Model Service would answer a POST /predict made during the
\* invocation (the behaviours the orchestration tests inject).
ProviderBehaviors == {"success", "timeout", "connect_error", "http_500"}
ProviderFailures == ProviderBehaviors \ {"success"}

EntryIds == 1..MaxEntries
\* Path parameters tried by GET/PUT/DELETE: every id that can exist and one
\* that never does.
RequestIds == 1..(MaxEntries + 1)

NoUser == 0
NoEntry == 0
NoBody == [id |-> NoEntry]
NoPayload == [date |-> 0]

VARIABLES
    users,        \* rows of table users
    tokens,       \* access tokens issued so far: "sub" claim, user logged in
    entries,      \* rows of table daily_entries
    predictions,  \* rows of table predictions
    nextUserId,   \* next value of the users.id sequence
    nextEntryId,  \* next value of the daily_entries.id sequence
    inv,          \* the create_entry invocation in flight, if any
    resp,         \* the last response sent, if any
    request,      \* the last request received, where a specification records it
    client,       \* a direct call of the Model Service client: inputs, result
    sessions,     \* storage sessions opened so far, where a specification
                  \* follows them
    inv2,         \* a second create_entry invocation in flight, if any
    reg,          \* register requests between their query and their insert
    ml            \* module state of api/routers/predict.py and its last answer

vars == <<users, tokens, entries, predictions, nextUserId, nextEntryId, inv,
          resp, request, client, sessions, inv2, reg, ml>>

\* ------------------------------------------------------------- responses
NoResp ==
    [op |-> "none", status |-> 0, detail |-> "", user |-> NoUser,
     entry_id |-> NoEntry, body |-> NoBody, items |-> <<>>,
     provider |-> "none", calls |-> 0, events |-> <<>>, requests |-> <<>>]

Response(op, status, detail, user, entry_id) ==
    [NoResp EXCEPT !.op = op, !.status = status, !.detail = detail,
                   !.user = user, !.entry_id = entry_id]

\* No request recorded, no client call made.
NoRequest ==
    [op |-> "none", credentials |-> "none", payload |-> NoPayload,
     entry_id |-> NoEntry]

NoClient == [pc |-> "none", seen |-> {}]

IdleInv ==
    [pc |-> "idle", caller |-> NoUser, entry_id |-> NoEntry,
     provider |-> "none", calls |-> 0, events |-> <<>>, requests |-> <<>>]

\* api/routers/predict.py before the module is imported.
NoMl == [pc |-> "none"]

\* ------------------------------------------------------- api/database.py
\* get_session(): a new Session for the request that asks for it, the
\* request being numbered like its session.  The function returns the
\* session and has no part that runs after the response; no handler closes
\* the session either.  ended tells whether the request was answered.
get_session ==
    [id |-> Cardinality(sessions) + 1, request |-> Cardinality(sessions) + 1,
     open |-> TRUE, ended |-> FALSE]

\* ----------------------------------------------------------- api/auth.py
get_password_hash(password) == <<"bcrypt", password>>

verify_password(plain_password, hashed_password) ==
    hashed_password = <<"bcrypt", plain_password>>

UserByEmail(email) ==
    IF \E u \in users : u.email = email
    THEN (CHOOSE u \in users : u.email = email).id
    ELSE NoUser

\* The gate without the ExpiredSignatureError branch: an expired token is
\* taken for the token of a registered user.
get_current_user_ignoring_expiry(credentials) ==
    IF credentials \in {"none", "invalid"} THEN NoUser
    ELSE IF credentials = "expired"
    THEN (IF users = {} THEN NoUser ELSE (CHOOSE u \in users : TRUE).id)
    ELSE UserByEmail(credentials)

\* The id of the user the credential resolves to, NoUser when the gate
\* raises 401.
get_current_user(credentials) ==
    IF credentials \in BadCredentials
    THEN NoUser
    ELSE UserByEmail(credentials)

Unauthorized(op) ==
    Response(op, 401, "Could not validate credentials", NoUser, NoEntry)

\* ------------------------------------------------ api/models/schemas.py
\* str.strip() on the strings the requests carry: the whitespace-only ones
\* become empty, the others have no surrounding whitespace.
strip(value) == IF value \in {"", "   "} THEN "" ELSE value

\* Parsing of the date field.  Dates are days of February 2026; a value
\* outside the month stands for a string that is not an ISO date.
parse_date(value) == value \in 1..28

\* EntryCreate that runs no field validator.
EntryCreate_unvalidated(payload) ==
    parse_date(payload.date)

\* EntryCreate: TRUE when the body passes every field validator.
EntryCreate(payload) ==
    /\ 0 <= payload.sleep_hours /\ payload.sleep_hours <= 24
    /\ strip(payload.workout_intensity) # ""
    /\ \/ payload.supplement_intake = "null"
       \/ strip(payload.supplement_intake) # ""
    /\ 0 <= payload.screen_time /\ payload.screen_time <= 24
    /\ 1 <= payload.stress_level /\ payload.stress_level <= 10
    /\ parse_date(payload.date)

\* The 422 of FastAPI's RequestValidationError handler.
Unprocessable(op, user) ==
    Response(op, 422, "validation error", user, NoEntry)

EntryResponse(entry) ==
    [id |-> entry.id, sleep_hours |-> entry.sleep_hours,
     workout_intensity |-> entry.workout_intensity,
     supplement_intake |-> entry.supplement_intake,
     screen_time |-> entry.screen_time, stress_level |-> entry.stress_level,
     date |-> entry.date]

\* ---------------------------------------------- api/models/db_models.py
DailyEntry(id, user_id, payload) ==
    [id |-> id, user_id |-> user_id, date |-> payload.date,
     sleep_hours |-> payload.sleep_hours,
     workout_intensity |-> payload.workout_intensity,
     supplement_intake |-> payload.supplement_intake,
     screen_time |-> payload.screen_time,
     stress_level |-> payload.stress_level]

\* The setattr loop that leaves the date of the row as it was.
apply_payload_keeping_date(entry, payload) ==
    [DailyEntry(entry.id, entry.user_id, payload) EXCEPT !.date = entry.date]

\* update_entry's loop over payload.model_dump(): every field of the body is
\* set on the row; id and user_id are not fields of the body.
apply_payload(entry, payload) ==
    DailyEntry(entry.id, entry.user_id, payload)

EntryById(entry_id) == CHOOSE e \in entries : e.id = entry_id

EntryExists(entry_id) == \E e \in entries : e.id = entry_id

PredictionsOf(entry_id) == {p \in predictions : p.daily_entry_id = entry_id}

\* -------------------------------------------------- api/routers/auth.py
\* register_user without the query for an existing user, on a table without
\* the unique index.
register_user_unchecked(email, password) ==
    /\ nextUserId <= MaxUsers
    /\ users' = users \cup
         {[id |-> nextUserId, email |-> email,
           hashed_password |-> get_password_hash(password)]}
    /\ nextUserId' = nextUserId + 1
    /\ resp' = Response("register", 201, "", nextUserId, NoEntry)
    /\ UNCHANGED <<tokens, entries, predictions, nextEntryId, inv>>

register_user(email, password) ==
    /\ IF \E u \in users : u.email = email
       THEN /\ resp' = Response("register", 400, "Email already registered",
                                NoUser, NoEntry)
            /\ UNCHANGED <<users, nextUserId>>
       ELSE /\ nextUserId <= MaxUsers
            /\ users' = users \cup
                 {[id |-> nextUserId, email |-> email,
                   hashed_password |-> get_password_hash(password)]}
            /\ nextUserId' = nextUserId + 1
            /\ resp' = Response("register", 201, "", nextUserId, NoEntry)
    /\ UNCHANGED <<tokens, entries, predictions, nextEntryId, inv>>

\* register_user as two steps, for requests served by different worker
\* threads.  First the query for an existing user: 400 when there is one,
\* otherwise the request goes on to its insert.  slot tells the requests in
\* flight apart.
register_user_query(slot, email, password) ==
    /\ \A r \in reg : r.slot # slot
    /\ IF \E u \in users : u.email = email
       THEN /\ resp' = Response("register", 400, "Email already registered",
                                NoUser, NoEntry)
            /\ UNCHANGED reg
       ELSE /\ reg' = reg \cup
                 {[slot |-> slot, email |-> email, password |-> password]}
            /\ UNCHANGED resp
    /\ UNCHANGED <<users, tokens, entries, predictions, nextUserId,
                   nextEntryId, inv>>

\* Then db.add(user) and db.commit().  users.email has a unique index: when
\* the email was registered since the query, the commit raises
\* IntegrityError, which nothing catches, and the answer is 500.
register_user_insert(r) ==
    /\ r \in reg
    /\ reg' = reg \ {r}
    /\ IF \E u \in users : u.email = r.email
       THEN /\ resp' = Response("register", 500, "Internal Server Error",
                                NoUser, NoEntry)
            /\ UNCHANGED <<users, nextUserId>>
       ELSE /\ nextUserId <= MaxUsers
            /\ users' = users \cup
                 {[id |-> nextUserId, email |-> r.email,
                   hashed_password |-> get_password_hash(r.password)]}
            /\ nextUserId' = nextUserId + 1
            /\ resp' = Response("register", 201, "", nextUserId, NoEntry)
    /\ UNCHANGED <<tokens, entries, predictions, nextEntryId, inv>>

login_user(email, password) ==
    /\ IF \/ UserByEmail(email) = NoUser
          \/ ~verify_password(password,
                (CHOOSE u \in users : u.email = email).hashed_password)
       THEN /\ resp' = Response("login", 401, "Invalid email or password",
                                NoUser, NoEntry)
            /\ UNCHANGED tokens
       ELSE /\ tokens' = tokens \cup
                 {[sub |-> email, uid |-> UserByEmail(email)]}
            /\ resp' = Response("login", 200, "", UserByEmail(email), NoEntry)
    /\ UNCHANGED <<users, entries, predictions, nextUserId, nextEntryId, inv>>

\* GET /auth/me
read_current_user(credentials) ==
    LET current_user == get_current_user(credentials) IN
    /\ resp' = IF current_user = NoUser THEN Unauthorized("me")
               ELSE Response("me", 200, "", current_user, NoEntry)
    /\ UNCHANGED <<users, tokens, entries, predictions, nextUserId,
                   nextEntryId, inv>>

\* A user row deleted in the database, as the deleted-user test does; no
\* endpoint deletes users.  daily_entries.user_id is a foreign key to
\* users.id without ON DELETE, so only a user without entries is deleted.
delete_user(user_id) ==
    /\ \E u \in users : u.id = user_id
    /\ \A e \in entries : e.user_id # user_id
    /\ users' = {u \in users : u.id # user_id}
    /\ UNCHANGED <<tokens, entries, predictions, nextUserId, nextEntryId,
                   inv, resp>>

\* ----------------------------------------------- api/routers/entries.py
\* _get_entry_or_404: TRUE when the lookup finds a row.
get_entry_or_404(entry_id) == EntryExists(entry_id)

\* _ensure_owner without the comparison.
ensure_owner_skipped(entry, current_user) == TRUE

\* _ensure_owner: TRUE when the check passes.
ensure_owner(entry, current_user) == entry.user_id = current_user

\* The outcome of the two guards in the order the handlers apply them:
\* 404, 403 or 0 when both pass.
Guard(entry_id, current_user) ==
    IF ~get_entry_or_404(entry_id) THEN 404
    ELSE IF ~ensure_owner(EntryById(entry_id), current_user) THEN 403
    ELSE 0

GuardResponse(op, code, current_user, entry_id) ==
    IF code = 404
    THEN Response(op, 404, "Entry not found", current_user, entry_id)
    ELSE Response(op, 403, "Not authorized to access this entry",
                  current_user, entry_id)

\* The ordering without the date key: rows in insertion order.
Precedes_by_id(e, f) == e.id < f.id

\* order_by(DailyEntry.date.asc(), DailyEntry.id.asc())
Precedes(e, f) == e.date < f.date \/ (e.date = f.date /\ e.id < f.id)

RECURSIVE order_by(_)
order_by(rows) ==
    IF rows = {} THEN <<>>
    ELSE LET first == CHOOSE e \in rows : \A f \in rows \ {e} : Precedes(e, f)
         IN  <<EntryResponse(first)>> \o order_by(rows \ {first})

\* add_entry with a deduplication the handler does not have: an identical
\* entry of the same user is reused instead of inserted.
add_entry_dedup(user_id, payload) ==
    IF \E e \in entries : DailyEntry(e.id, user_id, payload) = e
    THEN entries
    ELSE entries \cup {DailyEntry(nextEntryId, user_id, payload)}

\* The rows of daily_entries after db.add(entry); db.commit().  The id comes
\* from the primary-key sequence, so the row is always a new one.
add_entry(user_id, payload) ==
    entries \cup {DailyEntry(nextEntryId, user_id, payload)}

\* create_entry up to and including db.commit(): the identity gate, the
\* construction of the row and the single write.  provider is how the Model
\* Service would answer during this invocation; storage_ok is FALSE when the
\* commit raises.
create_entry_commit(credentials, payload, provider, storage_ok) ==
    LET current_user == get_current_user(credentials) IN
    /\ inv.pc = "idle"
    /\ IF current_user = NoUser
       THEN /\ resp' = Unauthorized("create")
            /\ UNCHANGED <<entries, nextEntryId, inv>>
       ELSE IF ~EntryCreate(payload)
       THEN /\ resp' = Unprocessable("create", current_user)
            /\ UNCHANGED <<entries, nextEntryId, inv>>
       ELSE IF ~storage_ok
       THEN /\ resp' = [Response("create", 500, "Internal Server Error",
                                 current_user, NoEntry)
                          EXCEPT !.provider = provider]
            /\ UNCHANGED <<entries, nextEntryId, inv>>
       ELSE /\ nextEntryId <= MaxEntries
            /\ entries' = add_entry(current_user, payload)
            /\ nextEntryId' = nextEntryId + 1
            /\ inv' = [pc |-> "committed", caller |-> current_user,
                       entry_id |-> nextEntryId, provider |-> provider,
                       calls |-> 0, events |-> <<"entry_commit">>,
                       requests |-> <<>>]
            /\ UNCHANGED resp
    /\ UNCHANGED <<users, tokens, predictions, nextUserId>>

\* create_entry from db.refresh(entry) to the response.  The handler makes
\* no call to the Model Service and writes no Prediction: it re-reads the
\* row and returns it with status 201.  refresh raises when the row is gone.
create_entry_return ==
    /\ inv.pc = "committed"
    /\ resp' =
         IF EntryExists(inv.entry_id)
         THEN [Response("create", 201, "", inv.caller, inv.entry_id)
                 EXCEPT !.body = EntryResponse(EntryById(inv.entry_id)),
                        !.provider = inv.provider, !.calls = inv.calls,
                        !.events = inv.events, !.requests = inv.requests]
         ELSE [Response("create", 500, "Internal Server Error",
                        inv.caller, inv.entry_id)
                 EXCEPT !.provider = inv.provider, !.calls = inv.calls,
                        !.events = inv.events, !.requests = inv.requests]
    /\ inv' = IdleInv
    /\ UNCHANGED <<users, tokens, entries, predictions, nextUserId, nextEntryId>>

\* Giving up inside one transaction that spans the whole handler: the row
\* goes with the rollback.
create_entry_abandon_rolls_back ==
    /\ inv.pc = "committed"
    /\ inv' = IdleInv
    /\ entries' = {e \in entries : e.id # inv.entry_id}
    /\ UNCHANGED <<users, tokens, predictions, nextUserId, nextEntryId, resp>>

\* create_entry given up after db.commit(): the caller is gone and no
\* response is sent.  Nothing undoes the commit.
create_entry_abandon ==
    /\ inv.pc = "committed"
    /\ inv' = IdleInv
    /\ UNCHANGED <<users, tokens, entries, predictions, nextUserId,
                   nextEntryId, resp>>

\* create_entry run by a second worker while the first may be in flight:
\* the same handler with its own request, session and local variables.
second_create_entry_commit(credentials, payload, provider, storage_ok) ==
    LET current_user == get_current_user(credentials) IN
    /\ inv2.pc = "idle"
    /\ IF current_user = NoUser
       THEN /\ resp' = Unauthorized("create")
            /\ UNCHANGED <<entries, nextEntryId, inv2>>
       ELSE IF ~EntryCreate(payload)
       THEN /\ resp' = Unprocessable("create", current_user)
            /\ UNCHANGED <<entries, nextEntryId, inv2>>
       ELSE IF ~storage_ok
       THEN /\ resp' = [Response("create", 500, "Internal Server Error",
                                 current_user, NoEntry)
                          EXCEPT !.provider = provider]
            /\ UNCHANGED <<entries, nextEntryId, inv2>>
       ELSE /\ nextEntryId <= MaxEntries
            /\ entries' = add_entry(current_user, payload)
            /\ nextEntryId' = nextEntryId + 1
            /\ inv2' = [pc |-> "committed", caller |-> current_user,
                        entry_id |-> nextEntryId, provider |-> provider,
                        calls |-> 0, events |-> <<"entry_commit">>,
                        requests |-> <<>>]
            /\ UNCHANGED resp
    /\ UNCHANGED <<users, tokens, predictions, nextUserId, inv>>

\* The second worker answering with the row that the handler committed
\* last, whichever invocation that was.
second_create_entry_return_of_last_commit ==
    LET last == nextEntryId - 1 IN
    /\ inv2.pc = "committed"
    /\ resp' =
         IF EntryExists(last)
         THEN [Response("create", 201, "", inv2.caller, last)
                 EXCEPT !.body = EntryResponse(EntryById(last)),
                        !.provider = inv2.provider, !.calls = inv2.calls,
                        !.events = inv2.events, !.requests = inv2.requests]
         ELSE [Response("create", 500, "Internal Server Error",
                        inv2.caller, last)
                 EXCEPT !.provider = inv2.provider, !.calls = inv2.calls,
                        !.events = inv2.events, !.requests = inv2.requests]
    /\ inv2' = IdleInv
    /\ UNCHANGED <<users, tokens, entries, predictions, nextUserId,
                   nextEntryId, inv>>

second_create_entry_return ==
    /\ inv2.pc = "committed"
    /\ resp' =
         IF EntryExists(inv2.entry_id)
         THEN [Response("create", 201, "", inv2.caller, inv2.entry_id)
                 EXCEPT !.body = EntryResponse(EntryById(inv2.entry_id)),
                        !.provider = inv2.provider, !.calls = inv2.calls,
                        !.events = inv2.events, !.requests = inv2.requests]
         ELSE [Response("create", 500, "Internal Server Error",
                        inv2.caller, inv2.entry_id)
                 EXCEPT !.provider = inv2.provider, !.calls = inv2.calls,
                        !.events = inv2.events, !.requests = inv2.requests]
    /\ inv2' = IdleInv
    /\ UNCHANGED <<users, tokens, entries, predictions, nextUserId,
                   nextEntryId, inv>>

\* list_entries without the filter on the owner.
list_entries_unfiltered(credentials) ==
    LET current_user == get_current_user(credentials) IN
    /\ resp' =
         IF current_user = NoUser THEN Unauthorized("list")
         ELSE [Response("list", 200, "", current_user, NoEntry)
                 EXCEPT !.items = order_by(entries)]
    /\ UNCHANGED <<users, tokens, entries, predictions, nextUserId,
                   nextEntryId, inv>>

list_entries(credentials) ==
    LET current_user == get_current_user(credentials) IN
    /\ resp' =
         IF current_user = NoUser THEN Unauthorized("list")
         ELSE [Response("list", 200, "", current_user, NoEntry)
                 EXCEPT !.items =
                   order_by({e \in entries : e.user_id = current_user})]
    /\ UNCHANGED <<users, tokens, entries, predictions, nextUserId,
                   nextEntryId, inv>>

\* get_entry that deletes the row it refuses to show.
get_entry_purging(credentials, entry_id) ==
    LET current_user == get_current_user(credentials)
        code == Guard(entry_id, current_user)
    IN
    /\ resp' =
         IF current_user = NoUser THEN Unauthorized("get")
         ELSE IF code # 0 THEN GuardResponse("get", code, current_user, entry_id)
         ELSE [Response("get", 200, "", current_user, entry_id)
                 EXCEPT !.body = EntryResponse(EntryById(entry_id))]
    /\ entries' = IF current_user # NoUser /\ code = 403
                  THEN {e \in entries : e.id # entry_id}
                  ELSE entries
    /\ UNCHANGED <<users, tokens, predictions, nextUserId, nextEntryId, inv>>

get_entry(credentials, entry_id) ==
    LET current_user == get_current_user(credentials)
        code == Guard(entry_id, current_user)
    IN
    /\ resp' =
         IF current_user = NoUser THEN Unauthorized("get")
         ELSE IF code # 0 THEN GuardResponse("get", code, current_user, entry_id)
         ELSE [Response("get", 200, "", current_user, entry_id)
                 EXCEPT !.body = EntryResponse(EntryById(entry_id))]
    /\ UNCHANGED <<users, tokens, entries, predictions, nextUserId,
                   nextEntryId, inv>>

\* update_entry that also stores a Prediction for the entry it replaced.
update_entry_repredicts(credentials, entry_id, payload) ==
    LET current_user == get_current_user(credentials)
        code == Guard(entry_id, current_user)
    IN
    /\ current_user # NoUser
    /\ code = 0
    /\ LET entry == EntryById(entry_id)
           updated == DailyEntry(entry.id, entry.user_id, payload)
       IN  /\ entries' = (entries \ {entry}) \cup {updated}
           /\ predictions' = predictions \cup
                 {[id |-> Cardinality(predictions) + 1,
                   user_id |-> current_user, daily_entry_id |-> entry.id,
                   prediction_score |-> 1, recommendations |-> "hydrate"]}
           /\ resp' = [Response("put", 200, "", current_user, entry_id)
                         EXCEPT !.body = EntryResponse(updated)]
    /\ UNCHANGED <<users, tokens, nextUserId, nextEntryId, inv>>

update_entry(credentials, entry_id, payload) ==
    LET current_user == get_current_user(credentials)
        code == Guard(entry_id, current_user)
    IN
    /\ IF current_user = NoUser
       THEN /\ resp' = Unauthorized("put")
            /\ UNCHANGED entries
       ELSE IF ~EntryCreate(payload)
       THEN /\ resp' = Unprocessable("put", current_user)
            /\ UNCHANGED entries
       ELSE IF code # 0
       THEN /\ resp' = GuardResponse("put", code, current_user, entry_id)
            /\ UNCHANGED entries
       ELSE LET entry == EntryById(entry_id)
                updated == apply_payload(entry, payload)
            IN  /\ entries' = (entries \ {entry}) \cup {updated}
                /\ resp' = [Response("put", 200, "", current_user, entry_id)
                              EXCEPT !.body = EntryResponse(updated)]
    /\ UNCHANGED <<users, tokens, predictions, nextUserId, nextEntryId, inv>>

\* delete_entry that deletes every row of the caller.
delete_entry_of_owner(credentials, entry_id) ==
    LET current_user == get_current_user(credentials)
        code == Guard(entry_id, current_user)
    IN
    /\ IF current_user = NoUser
       THEN /\ resp' = Unauthorized("delete")
            /\ UNCHANGED entries
       ELSE IF code # 0
       THEN /\ resp' = GuardResponse("delete", code, current_user, entry_id)
            /\ UNCHANGED entries
       ELSE /\ entries' = {e \in entries : e.user_id # current_user}
            /\ resp' = Response("delete", 204, "", current_user, entry_id)
    /\ UNCHANGED <<users, tokens, predictions, nextUserId, nextEntryId, inv>>

delete_entry(credentials, entry_id) ==
    LET current_user == get_current_user(credentials)
        code == Guard(entry_id, current_user)
    IN
    /\ IF current_user = NoUser
       THEN /\ resp' = Unauthorized("delete")
            /\ UNCHANGED entries
       ELSE IF code # 0
       THEN /\ resp' = GuardResponse("delete", code, current_user, entry_id)
            /\ UNCHANGED entries
       ELSE /\ entries' = entries \ {EntryById(entry_id)}
            /\ resp' = Response("delete", 204, "", current_user, entry_id)
    /\ UNCHANGED <<users, tokens, predictions, nextUserId, nextEntryId, inv>>

\* ----------------------------------------------- api/routers/predict.py
\* PredictRequest: TRUE when the body passes validation.  extra stands for a
\* field the schema does not know (extra="forbid").
PredictRequest(payload) ==
    /\ ~payload.extra
    /\ 0 <= payload.sleep_hours /\ payload.sleep_hours <= 12
    /\ 1 <= payload.workout_intensity /\ payload.workout_intensity <= 10
    /\ 0 <= payload.supplement_intake /\ payload.supplement_intake <= 10
    /\ 0 <= payload.screen_time /\ payload.screen_time <= 16

\* The module body: MODEL and PREPROCESSING_PIPELINE are loaded together,
\* or _load_artifacts raises and the error is kept in MODEL_LOAD_ERROR.
load_artifacts(outcome) ==
    /\ ml.pc = "none"
    /\ ml' = [pc |-> "imported", MODEL |-> outcome = "loaded",
              PREPROCESSING_PIPELINE |-> outcome = "loaded",
              MODEL_LOAD_ERROR |-> IF outcome = "loaded" THEN "none" ELSE outcome,
              served |-> 0, inferences |-> 0, status |-> 0, detail |-> <<>>,
              prediction |-> 0, recommendation |-> ""]
    /\ UNCHANGED <<users, tokens, entries, predictions, nextUserId,
                   nextEntryId, inv, resp>>

\* The module attributes set from outside, as the tests do.
monkeypatch(model, pipeline, error) ==
    /\ ml.pc = "imported"
    /\ ml' = [ml EXCEPT !.MODEL = model, !.PREPROCESSING_PIPELINE = pipeline,
                        !.MODEL_LOAD_ERROR = error]
    /\ UNCHANGED <<users, tokens, entries, predictions, nextUserId,
                   nextEntryId, inv, resp>>

\* The check that looks at MODEL only.
ensure_model_ready_without_pipeline == ml.MODEL

\* _ensure_model_ready: TRUE when it returns, FALSE when it raises the 503.
ensure_model_ready == ml.MODEL /\ ml.PREPROCESSING_PIPELINE

\* The detail of that 503, the load error appended when there is one.
unavailable_detail ==
    LET detail ==
          <<"Prediction service unavailable: model artifacts are not loaded.">>
    IN  IF ml.MODEL_LOAD_ERROR # "none"
        THEN detail \o <<ml.MODEL_LOAD_ERROR>>
        ELSE detail

build_recommendation(prediction) ==
    IF prediction < 3 THEN "Low predicted stress."
    ELSE IF prediction < 6 THEN "Moderate predicted stress."
    ELSE "High predicted stress."

\* POST /predict.  value is what MODEL.predict returns for the features; a
\* pipeline that is missing while the check passed makes the handler fail
\* with 500.
predict(payload, value) ==
    /\ ml.pc = "imported"
    /\ ml' =
         IF ~PredictRequest(payload)
         THEN [ml EXCEPT !.served = @ + 1, !.status = 422,
                         !.detail = <<"validation error">>,
                         !.prediction = 0, !.recommendation = ""]
         ELSE IF ~ensure_model_ready
         THEN [ml EXCEPT !.served = @ + 1, !.status = 503,
                         !.detail = unavailable_detail,
                         !.prediction = 0, !.recommendation = ""]
         ELSE IF ~ml.PREPROCESSING_PIPELINE
         THEN [ml EXCEPT !.served = @ + 1, !.status = 500,
                         !.detail = <<"Internal Server Error">>,
                         !.prediction = 0, !.recommendation = ""]
         ELSE [ml EXCEPT !.served = @ + 1, !.inferences = @ + 1,
                         !.status = 200, !.detail = <<>>,
                         !.prediction = value,
                         !.recommendation = build_recommendation(value)]
    /\ UNCHANGED <<users, tokens, entries, predictions, nextUserId,
                   nextEntryId, inv, resp>>

\* ------------------------------------------- api/utils/model_client.py
\* A text is a sequence of pieces; "/" is a piece of its own, so that the
\* trailing slashes of a URL can be told from the rest.
RECURSIVE rstrip(_)
rstrip(value) ==
    IF value # <<>> /\ value[Len(value)] = "/"
    THEN rstrip(SubSeq(value, 1, Len(value) - 1))
    ELSE value

\* os.getenv("MODEL_SERVICE_URL"): set is FALSE when the variable is absent.
\* error is "config" when ModelServiceConfigError is raised.
get_model_service_url(env) ==
    IF ~env.set \/ env.value = <<>>
    THEN [error |-> "config", url |-> <<>>]
    ELSE [error |-> "none", url |-> rstrip(env.value)]

\* What a call of the client ends with: kind "ok" with the payload returned,
\* or the kind of ModelServiceError raised.  method, url and json describe the
\* request sent, method "none" when none was sent.
Outcome(kind, method, url, json, payload) ==
    [kind |-> kind, method |-> method, url |-> url, json |-> json,
     payload |-> payload]

HasKey(items, key) == \E item \in items : item[1] = key

\* The client with "except httpx.RequestError" tried before "except
\* httpx.TimeoutException": TimeoutException is a RequestError.
call_model_service_timeout_shadowed(env, entry_data, transport, response) ==
    LET base == get_model_service_url(env)
        url == base.url \o <<"/predict">>
    IN  IF base.error # "none"
        THEN Outcome("config", "none", <<>>, NoPayload, {})
        ELSE IF transport # "response"
        THEN Outcome("connection", "POST", url, entry_data, {})
        ELSE IF \/ response.status_code # 200
                \/ response.body.kind # "dict"
                \/ ~HasKey(response.body.items, "prediction")
                \/ ~HasKey(response.body.items, "recommendation")
        THEN Outcome("response", "POST", url, entry_data, {})
        ELSE Outcome("ok", "POST", url, entry_data, response.body.items)

\* transport is what httpx does with the request: it delivers a response or
\* raises TimeoutException, ConnectError or another RequestError.  A body is
\* of kind "text" (response.json() raises ValueError), "list" (JSON, but not
\* an object) or "dict" with its items.
call_model_service(env, entry_data, transport, response) ==
    LET base == get_model_service_url(env)
        url == base.url \o <<"/predict">>
    IN  IF base.error # "none"
        THEN Outcome("config", "none", <<>>, NoPayload, {})
        ELSE IF transport = "timeout"
        THEN Outcome("timeout", "POST", url, entry_data, {})
        ELSE IF transport = "connect_error"
        THEN Outcome("connection", "POST", url, entry_data, {})
        ELSE IF transport = "request_error"
        THEN Outcome("connection", "POST", url, entry_data, {})
        ELSE IF response.status_code # 200
        THEN Outcome("response", "POST", url, entry_data, {})
        ELSE IF response.body.kind = "text"
        THEN Outcome("response", "POST", url, entry_data, {})
        ELSE IF response.body.kind # "dict"
        THEN Outcome("response", "POST", url, entry_data, {})
        ELSE IF \/ ~HasKey(response.body.items, "prediction")
                \/ ~HasKey(response.body.items, "recommendation")
        THEN Outcome("response", "POST", url, entry_data, {})
        ELSE Outcome("ok", "POST", url, entry_data, response.body.items)

\* One call of the client by a caller that keeps what came of it.
client_call(env, entry_data, transport, response) ==
    LET result == call_model_service(env, entry_data, transport, response) IN
    /\ client' = [pc |-> "done", env |-> env, transport |-> transport,
                  response |-> response, result |-> result,
                  seen |-> client.seen \cup {result.kind}]
    /\ UNCHANGED <<users, tokens, entries, predictions, nextUserId,
                   nextEntryId, inv, resp>>

\* --------------------------------------------------------- specification
Credentials == BadCredentials \cup {t.sub : t \in tokens}

Init ==
    /\ users = {}
    /\ tokens = {}
    /\ entries = {}
    /\ predictions = {}
    /\ nextUserId = 1
    /\ nextEntryId = 1
    /\ inv = IdleInv
    /\ resp = NoResp
    /\ request = NoRequest
    /\ client = NoClient
    /\ sessions = {}
    /\ inv2 = IdleInv
    /\ reg = {}
    /\ ml = NoMl

Next ==
    \/ /\ \E email \in Emails, password \in Passwords :
            register_user(email, password)
       /\ UNCHANGED <<request, client, sessions, inv2, reg, ml>>
    \/ /\ \E email \in Emails, password \in LoginPasswords :
            login_user(email, password)
       /\ UNCHANGED <<request, client, sessions, inv2, reg, ml>>
    \/ /\ \E credentials \in Credentials, payload \in ValidPayloads,
             provider \in ProviderBehaviors, storage_ok \in BOOLEAN :
            create_entry_commit(credentials, payload, provider, storage_ok)
       /\ UNCHANGED <<request, client, sessions, inv2, reg, ml>>
    \/ /\ create_entry_return
       /\ UNCHANGED <<request, client, sessions, inv2, reg, ml>>
    \/ /\ \E credentials \in Credentials : list_entries(credentials)
       /\ UNCHANGED <<request, client, sessions, inv2, reg, ml>>
    \/ /\ \E credentials \in Credentials, entry_id \in RequestIds :
            get_entry(credentials, entry_id)
       /\ UNCHANGED <<request, client, sessions, inv2, reg, ml>>
    \/ /\ \E credentials \in Credentials, entry_id \in RequestIds,
             payload \in ValidPayloads :
            update_entry(credentials, entry_id, payload)
       /\ UNCHANGED <<request, client, sessions, inv2, reg, ml>>
    \/ /\ \E credentials \in Credentials, entry_id \in RequestIds :
            delete_entry(credentials, entry_id)
       /\ UNCHANGED <<request, client, sessions, inv2, reg, ml>>

Spec == Init /\ [][Next]_vars

\* ------------------------------------------- specification: identity gate
\* Every endpoint behind the identity gate, each kind of rejected credential,
\* and users that are deleted and registered again.  Each step records the
\* request it serves.  Bodies and provider behaviour are fixed to one value.
MaxAuthEntries == 1

AuthPayload ==
    [date |-> 20, sleep_hours |-> 8, workout_intensity |-> "high",
     supplement_intake |-> "null", screen_time |-> 2, stress_level |-> 1]

AuthIds == 1..(MaxAuthEntries + 1)

ProtectedOps == {"create", "list", "get", "put", "delete", "me"}

Received(op, credentials, payload, entry_id) ==
    [op |-> op, credentials |-> credentials, payload |-> payload,
     entry_id |-> entry_id]

NextAuth ==
    \/ /\ \E email \in Emails, password \in Passwords :
            register_user(email, password)
       /\ request' = Received("register", "none", NoPayload, NoEntry)
       /\ UNCHANGED <<client, sessions, inv2, reg, ml>>
    \/ /\ \E email \in Emails, password \in Passwords :
            login_user(email, password)
       /\ request' = Received("login", "none", NoPayload, NoEntry)
       /\ UNCHANGED <<client, sessions, inv2, reg, ml>>
    \/ /\ \E user_id \in 1..MaxUsers : delete_user(user_id)
       /\ request' = Received("delete_user", "none", NoPayload, NoEntry)
       /\ UNCHANGED <<client, sessions, inv2, reg, ml>>
    \/ \E credentials \in Credentials :
         /\ nextEntryId <= MaxAuthEntries
         /\ create_entry_commit(credentials, AuthPayload, "success", TRUE)
         /\ request' = Received("create", credentials, AuthPayload, NoEntry)
         /\ UNCHANGED <<client, sessions, inv2, reg, ml>>
    \/ /\ create_entry_return
       /\ UNCHANGED <<request, client, sessions, inv2, reg, ml>>
    \/ \E credentials \in Credentials :
         /\ read_current_user(credentials)
         /\ request' = Received("me", credentials, NoPayload, NoEntry)
         /\ UNCHANGED <<client, sessions, inv2, reg, ml>>
    \/ \E credentials \in Credentials :
         /\ list_entries(credentials)
         /\ request' = Received("list", credentials, NoPayload, NoEntry)
         /\ UNCHANGED <<client, sessions, inv2, reg, ml>>
    \/ \E credentials \in Credentials, entry_id \in AuthIds :
         /\ get_entry(credentials, entry_id)
         /\ request' = Received("get", credentials, NoPayload, entry_id)
         /\ UNCHANGED <<client, sessions, inv2, reg, ml>>
    \/ \E credentials \in Credentials, entry_id \in AuthIds :
         /\ update_entry(credentials, entry_id, AuthPayload)
         /\ request' = Received("put", credentials, AuthPayload, entry_id)
         /\ UNCHANGED <<client, sessions, inv2, reg, ml>>
    \/ \E credentials \in Credentials, entry_id \in AuthIds :
         /\ delete_entry(credentials, entry_id)
         /\ request' = Received("delete", credentials, NoPayload, entry_id)
         /\ UNCHANGED <<client, sessions, inv2, reg, ml>>

SpecAuth == Init /\ [][NextAuth]_vars

\* ------------------------------------------ specification: request bodies
\* POST /entries and PUT /entries/{id} with bodies that pass validation,
\* bodies on the edge of each range and bodies that break one validator
\* each.  Each step records the request it serves.
MaxBodyUsers == 1

EdgePayload ==
    [date |-> 28, sleep_hours |-> 0, workout_intensity |-> "low",
     supplement_intake |-> "magnesium", screen_time |-> 24,
     stress_level |-> 10]

InvalidPayloads ==
    { [AuthPayload EXCEPT !.sleep_hours = -1],
      [AuthPayload EXCEPT !.sleep_hours = 25],
      [AuthPayload EXCEPT !.screen_time = -1],
      [AuthPayload EXCEPT !.screen_time = 25],
      [AuthPayload EXCEPT !.stress_level = 0],
      [AuthPayload EXCEPT !.stress_level = 11],
      [AuthPayload EXCEPT !.workout_intensity = "   "],
      [AuthPayload EXCEPT !.supplement_intake = ""],
      [AuthPayload EXCEPT !.date = 30] }

BodyPayloads == {AuthPayload, EdgePayload} \cup InvalidPayloads

BodyCredentials == {"none"} \cup {t.sub : t \in tokens}

NextBody ==
    \/ /\ nextUserId <= MaxBodyUsers
       /\ \E email \in Emails, password \in Passwords :
            register_user(email, password)
       /\ request' = Received("register", "none", NoPayload, NoEntry)
       /\ UNCHANGED <<client, sessions, inv2, reg, ml>>
    \/ /\ \E email \in Emails, password \in Passwords :
            login_user(email, password)
       /\ request' = Received("login", "none", NoPayload, NoEntry)
       /\ UNCHANGED <<client, sessions, inv2, reg, ml>>
    \/ \E credentials \in BodyCredentials, payload \in BodyPayloads :
         /\ create_entry_commit(credentials, payload, "success", TRUE)
         /\ request' = Received("create", credentials, payload, NoEntry)
         /\ UNCHANGED <<client, sessions, inv2, reg, ml>>
    \/ /\ create_entry_return
       /\ UNCHANGED <<request, client, sessions, inv2, reg, ml>>
    \/ \E credentials \in BodyCredentials, entry_id \in EntryIds,
          payload \in BodyPayloads :
         /\ update_entry(credentials, entry_id, payload)
         /\ request' = Received("put", credentials, payload, entry_id)
         /\ UNCHANGED <<client, sessions, inv2, reg, ml>>

SpecBody == Init /\ [][NextBody]_vars

\* ------------------------------------------ specification: provider client
\* Calls of call_model_service under every setting of MODEL_SERVICE_URL,
\* every behaviour of the transport and every shape of response.
ServiceUrl == <<"http://custom-model:9000">>

EnvUrls ==
    { [set |-> FALSE, value |-> <<>>],
      [set |-> TRUE, value |-> <<>>],
      [set |-> TRUE, value |-> ServiceUrl],
      [set |-> TRUE, value |-> ServiceUrl \o <<"/">>],
      [set |-> TRUE, value |-> ServiceUrl \o <<"/", "/">>] }

Transports == {"response", "timeout", "connect_error", "request_error"}

StatusCodes == {200, 500}

Number(text) == [type |-> "number", text |-> text]
String(text) == [type |-> "string", text |-> text]
Dict(items) == [kind |-> "dict", items |-> items]

ResponseBodies ==
    { [kind |-> "text", items |-> {}],
      [kind |-> "list", items |-> {}],
      Dict({}),
      Dict({<<"prediction", Number("0.82")>>}),
      Dict({<<"recommendation", String("Sleep more")>>}),
      Dict({<<"prediction", Number("0.82")>>,
            <<"recommendation", String("Sleep more")>>}),
      Dict({<<"prediction", String("high")>>,
            <<"recommendation", String("Sleep more")>>}),
      Dict({<<"prediction", Number("0.82")>>,
            <<"recommendation", String("")>>}),
      Dict({<<"prediction", Number("0.82")>>,
            <<"recommendation", Number("5")>>}) }

NextClient ==
    \E env \in EnvUrls, transport \in Transports,
       status_code \in StatusCodes, body \in ResponseBodies :
        /\ client_call(env, AuthPayload, transport,
                       [status_code |-> status_code, body |-> body])
        /\ UNCHANGED <<request, sessions, inv2, reg, ml>>

SpecClient == Init /\ [][NextClient]_vars

\* --------------------------------------- specification: provider failures
\* POST /entries while the Model Service fails in each of the ways the client
\* tells apart, a missing MODEL_SERVICE_URL and an unreadable body included.
FailureKinds ==
    ProviderFailures \cup {"config_missing", "request_error", "invalid_json"}

NextProvider ==
    \/ /\ \E email \in Emails, password \in Passwords :
            register_user(email, password)
       /\ UNCHANGED <<request, client, sessions, inv2, reg, ml>>
    \/ /\ \E email \in Emails, password \in Passwords :
            login_user(email, password)
       /\ UNCHANGED <<request, client, sessions, inv2, reg, ml>>
    \/ /\ \E credentials \in BodyCredentials,
             provider \in {"success"} \cup FailureKinds :
            create_entry_commit(credentials, AuthPayload, provider, TRUE)
       /\ UNCHANGED <<request, client, sessions, inv2, reg, ml>>
    \/ /\ create_entry_return
       /\ UNCHANGED <<request, client, sessions, inv2, reg, ml>>

SpecProvider == Init /\ [][NextProvider]_vars

\* ------------------------------------------ specification: storage sessions
\* Requests to the endpoints that depend on get_session, each with the
\* session it opens.  A request is answered in the step that serves it,
\* except a POST /entries that committed, which is answered by its second
\* step.
MaxSessions == 4

Answered == sessions' = sessions \cup {[get_session EXCEPT !.ended = TRUE]}

NextSession ==
    \/ /\ Cardinality(sessions) < MaxSessions
       /\ \E email \in Emails, password \in Passwords :
            register_user(email, password)
       /\ Answered
       /\ UNCHANGED <<request, client, inv2, reg, ml>>
    \/ /\ Cardinality(sessions) < MaxSessions
       /\ \E email \in Emails, password \in Passwords :
            login_user(email, password)
       /\ Answered
       /\ UNCHANGED <<request, client, inv2, reg, ml>>
    \/ /\ Cardinality(sessions) < MaxSessions
       /\ \E credentials \in BodyCredentials :
            create_entry_commit(credentials, AuthPayload, "success", TRUE)
       /\ sessions' = sessions \cup
            {[get_session EXCEPT !.ended = (inv'.pc # "committed")]}
       /\ UNCHANGED <<request, client, inv2, reg, ml>>
    \/ /\ create_entry_return
       /\ sessions' = {[s EXCEPT !.ended = TRUE] : s \in sessions}
       /\ UNCHANGED <<request, client, inv2, reg, ml>>
    \/ /\ Cardinality(sessions) < MaxSessions
       /\ \E credentials \in BodyCredentials : list_entries(credentials)
       /\ Answered
       /\ UNCHANGED <<request, client, inv2, reg, ml>>
    \/ /\ Cardinality(sessions) < MaxSessions
       /\ \E credentials \in BodyCredentials, entry_id \in EntryIds :
            delete_entry(credentials, entry_id)
       /\ Answered
       /\ UNCHANGED <<request, client, inv2, reg, ml>>

SpecSession == Init /\ [][NextSession]_vars

\* --------------------------------------- specification: two workers
\* Two create_entry invocations that may overlap, of the same user or of two,
\* the first submitting AuthPayload and the second EdgePayload; the first
\* may be given up after its commit.  GET /entries runs in between.
NextConcurrent ==
    \/ /\ \E email \in Emails, password \in Passwords :
            register_user(email, password)
       /\ UNCHANGED <<request, client, sessions, inv2, reg, ml>>
    \/ /\ \E email \in Emails, password \in Passwords :
            login_user(email, password)
       /\ UNCHANGED <<request, client, sessions, inv2, reg, ml>>
    \/ /\ \E credentials \in BodyCredentials :
            create_entry_commit(credentials, AuthPayload, "success", TRUE)
       /\ UNCHANGED <<request, client, sessions, inv2, reg, ml>>
    \/ /\ create_entry_return
       /\ UNCHANGED <<request, client, sessions, inv2, reg, ml>>
    \/ /\ create_entry_abandon
       /\ UNCHANGED <<request, client, sessions, inv2, reg, ml>>
    \/ /\ \E credentials \in BodyCredentials :
            second_create_entry_commit(credentials, EdgePayload, "success",
                                       TRUE)
       /\ UNCHANGED <<request, client, sessions, reg, ml>>
    \/ /\ second_create_entry_return
       /\ UNCHANGED <<request, client, sessions, reg, ml>>
    \/ /\ \E credentials \in BodyCredentials : list_entries(credentials)
       /\ UNCHANGED <<request, client, sessions, inv2, reg, ml>>

SpecConcurrent == Init /\ [][NextConcurrent]_vars

\* ------------------------------------------ specification: POST /predict
\* The import of api/routers/predict.py with each outcome, the module
\* attributes patched to every combination, and requests with a valid
\* body, a value out of range and an unknown field.
MaxPredicts == 2

LoadOutcomes == {"loaded", "No artifacts found", "No module named joblib"}

PredictPayload ==
    [sleep_hours |-> 7, workout_intensity |-> 5, supplement_intake |-> 3,
     screen_time |-> 4, extra |-> FALSE]

PredictPayloads ==
    { PredictPayload,
      [PredictPayload EXCEPT !.sleep_hours = 13],
      [PredictPayload EXCEPT !.extra = TRUE] }

PredictedValues == {2, 5, 7}

NextPredict ==
    \/ /\ \E outcome \in LoadOutcomes : load_artifacts(outcome)
       /\ UNCHANGED <<request, client, sessions, inv2, reg>>
    \/ /\ \E model \in BOOLEAN, pipeline \in BOOLEAN,
             error \in {"none"} \cup (LoadOutcomes \ {"loaded"}) :
            monkeypatch(model, pipeline, error)
       /\ UNCHANGED <<request, client, sessions, inv2, reg>>
    \/ /\ ml.pc = "imported" /\ ml.served < MaxPredicts
       /\ \E payload \in PredictPayloads, value \in PredictedValues :
            /\ predict(payload, value)
            /\ request' = [NoRequest EXCEPT !.op = "predict",
                                            !.payload = payload]
       /\ UNCHANGED <<client, sessions, inv2, reg>>

SpecPredict == Init /\ [][NextPredict]_vars

\* ------------------------------------- specification: register requests
\* Register requests that overlap, with logins in between.
MaxRegistering == 2

NextRegister ==
    \/ /\ \E slot \in 1..MaxRegistering, email \in Emails,
             password \in Passwords :
            register_user_query(slot, email, password)
       /\ UNCHANGED <<request, client, sessions, inv2, ml>>
    \/ /\ \E r \in reg : register_user_insert(r)
       /\ UNCHANGED <<request, client, sessions, inv2, ml>>
    \/ /\ \E email \in Emails, password \in LoginPasswords :
            login_user(email, password)
       /\ UNCHANGED <<request, client, sessions, inv2, reg, ml>>

SpecRegister == Init /\ [][NextRegister]_vars

TypeOK ==
    /\ \A u \in users : u.id \in 1..MaxUsers /\ u.email \in Emails
    /\ \A t \in tokens : t.sub \in Emails /\ t.uid \in 1..MaxUsers
    /\ \A e \in entries : e.id \in EntryIds /\ e.user_id \in 1..MaxUsers
    /\ inv.pc \in {"idle", "committed"}

\* ------------------------------------------------------ claim vocabulary
\* The last response is the one of a create_entry invocation that passed the
\* identity gate.
CreateAnswered == resp.op = "create" /\ resp.status # 401

\* That invocation committed its Entry (Step 1 did not fail).
CreateCommitted == CreateAnswered /\ resp.events # <<>>

\* Position of an event in the invocation's event log, 0 when absent.
EventIndex(events, name) ==
    IF \E i \in 1..Len(events) : events[i] = name
    THEN CHOOSE i \in 1..Len(events) : events[i] = name
    ELSE 0

EntryKept == EntryExists(resp.entry_id)

SamePayload(e, f) ==
    /\ e.user_id = f.user_id
    /\ EntryResponse([e EXCEPT !.id = 0]) = EntryResponse([f EXCEPT !.id = 0])

\* ---------------------------------------------------------------- claims

\* C1: a valid POST /entries by an authenticated caller with a succeeding
\* provider is answered 201 and leaves exactly one new Entry of the caller
\* and exactly one Prediction of that Entry and that caller.
C1_SuccessStoresEntryAndPrediction ==
    (CreateCommitted /\ resp.provider = "success" /\ resp.status # 500) =>
        /\ resp.status = 201
        /\ EntryKept
        /\ EntryById(resp.entry_id).user_id = resp.user
        /\ Cardinality(PredictionsOf(resp.entry_id)) = 1
        /\ \A p \in PredictionsOf(resp.entry_id) : p.user_id = resp.user

\* C2: a valid POST /entries by an authenticated caller with a failing
\* provider keeps the Entry, stores no Prediction and is answered 503
\* "Model Service unavailable".
C2_ProviderFailureGives503 ==
    (CreateCommitted /\ resp.provider \in ProviderFailures
       /\ resp.status # 500) =>
        /\ resp.status = 503
        /\ resp.detail = "Model Service unavailable"
        /\ EntryKept
        /\ PredictionsOf(resp.entry_id) = {}

C4_ExactlyOneProviderCall ==
    CreateCommitted => resp.calls = 1

\* C5: create_entry never deduplicates: each invocation that commits adds
\* exactly one row with an id no existing row has, also when an identical
\* entry of the same user is already stored, and ids stay unique.
C5_NotIdempotent ==
    [][ /\ (inv.pc = "idle" /\ inv'.pc = "committed") =>
             \E e \in entries' :
                /\ e \notin entries
                /\ entries' = entries \cup {e}
                /\ e.id = inv'.entry_id
                /\ e.user_id = inv'.caller
                /\ \A x \in entries : x.id # e.id
        /\ \A e, f \in entries' : e.id = f.id => e = f ]_vars

\* C5 witness: a first POST was answered under a failing provider, an
\* identical second POST has committed, and both rows are stored.
C5_Witness ==
    /\ inv.pc = "committed"
    /\ resp.op = "create" /\ resp.provider \in ProviderFailures
    /\ EntryExists(resp.entry_id) /\ EntryExists(inv.entry_id)
    /\ resp.entry_id # inv.entry_id
    /\ SamePayload(EntryById(resp.entry_id), EntryById(inv.entry_id))

\* C6: a create_entry invocation that has answered is in exactly one of the
\* terminal states DONE (Entry and Prediction stored), DONE_WITH_ORPHAN_ENTRY
\* (Entry stored, no Prediction, 503 surfaced) and fatal error, and the first
\* two are reached through ENTRY_COMMITTED.
IsDone ==
    resp.status = 201 /\ EntryKept /\ PredictionsOf(resp.entry_id) # {}

IsDoneWithOrphanEntry ==
    resp.status = 503 /\ EntryKept /\ PredictionsOf(resp.entry_id) = {}

IsFatal == resp.status = 500

C6_OneTerminalState ==
    CreateAnswered =>
        /\ Cardinality({t \in {"DONE", "ORPHAN", "FATAL"} :
              \/ t = "DONE" /\ IsDone
              \/ t = "ORPHAN" /\ IsDoneWithOrphanEntry
              \/ t = "FATAL" /\ IsFatal}) = 1
        /\ (IsDone \/ IsDoneWithOrphanEntry) =>
              EventIndex(resp.events, "entry_commit") # 0

\* C7: the internal-error outcome comes only from a failure of the Step 1
\* write; once the Entry is committed a failing provider step ends in 503
\* with the Entry kept and no Prediction.
C7_FatalOnlyFromStepOne ==
    CreateAnswered =>
        /\ resp.status = 500 => resp.events = <<>>
        /\ (resp.events # <<>> /\ resp.provider \in ProviderFailures) =>
              /\ resp.status = 503
              /\ EntryKept
              /\ PredictionsOf(resp.entry_id) = {}

\* C8: every Entry has at most one Prediction, and a step that is not part
\* of a create_entry invocation leaves the predictions table as it was.
C8_PredictionsOnlyFromCreate ==
    [][ /\ \A id \in EntryIds :
             Cardinality({p \in predictions' : p.daily_entry_id = id}) <= 1
        /\ predictions' # predictions =>
             /\ inv.pc # inv'.pc
             /\ predictions \subseteq predictions' ]_vars

\* C8 witness: an owner's PUT replaced an Entry and its Prediction count is
\* still at most one.
C8_Witness ==
    /\ resp.op = "put" /\ resp.status = 200
    /\ EntryExists(resp.entry_id)
    /\ Cardinality(PredictionsOf(resp.entry_id)) <= 1

\* C10: GET, PUT and DELETE /entries/{id} by an authenticated caller answer
\* 404 when no entry has the id, 403 when the entry is another user's, and
\* succeed (200 with the row, 200 with the replaced row, 204 with the row
\* gone) when the caller owns it.
C10_ExistenceThenOwnership ==
    [][ (resp' # resp /\ resp'.op \in {"get", "put", "delete"}
           /\ resp'.status # 401) =>
          LET id == resp'.entry_id
              caller == resp'.user
              rows == {e \in entries : e.id = id}
          IN  IF rows = {} THEN resp'.status = 404
              ELSE IF \E e \in rows : e.user_id # caller
              THEN resp'.status = 403 /\ entries' = entries
              ELSE CASE resp'.op = "get" ->
                          /\ resp'.status = 200
                          /\ \E e \in rows : resp'.body = EntryResponse(e)
                     [] resp'.op = "put" ->
                          /\ resp'.status = 200
                          /\ \E e \in entries' :
                                e.id = id /\ resp'.body = EntryResponse(e)
                     [] resp'.op = "delete" ->
                          /\ resp'.status = 204
                          /\ \A e \in entries' : e.id # id ]_vars

\* C10 witness: a DELETE by a caller who does not own the entry was answered
\* 403 and the entry is still stored.
C10_Witness ==
    /\ resp.op = "delete" /\ resp.status = 403
    /\ EntryExists(resp.entry_id)
    /\ EntryById(resp.entry_id).user_id # resp.user

\* C11: GET /entries lists the entries by date ascending and, among equal
\* dates, by id ascending, whatever the order they were inserted in.
C11_ListOrderedByDateThenId ==
    (resp.op = "list" /\ resp.status = 200) =>
        \A i, j \in 1..Len(resp.items) :
            i < j =>
                \/ resp.items[i].date < resp.items[j].date
                \/ /\ resp.items[i].date = resp.items[j].date
                   /\ resp.items[i].id < resp.items[j].id

\* C11 witness: a list of two entries in which the one inserted later comes
\* first because its date is earlier.
C11_Witness ==
    /\ resp.op = "list" /\ resp.status = 200
    /\ Len(resp.items) = 2
    /\ resp.items[1].id > resp.items[2].id
    /\ resp.items[1].date < resp.items[2].date

\* C12: GET /entries returns exactly the entries whose user_id is the
\* caller's id, each once.
C12_ListIsExactlyCallersEntries ==
    [][ (resp' # resp /\ resp'.op = "list" /\ resp'.status = 200) =>
          LET mine == {e \in entries : e.user_id = resp'.user}
          IN  /\ {resp'.items[i] : i \in 1..Len(resp'.items)}
                   = {EntryResponse(e) : e \in mine}
              /\ Len(resp'.items) = Cardinality(mine) ]_vars

\* C12 witness: the caller's entry is listed while another user's entry is
\* stored and not listed.
C12_Witness ==
    /\ resp.op = "list" /\ resp.status = 200
    /\ Len(resp.items) = 1
    /\ \E e \in entries : e.user_id = resp.user /\ e.id = resp.items[1].id
    /\ \E e \in entries : e.user_id # resp.user

\* A step that serves a request behind the identity gate; the second step of
\* POST /entries serves the request recorded when its first step ran.
ServesProtectedRequest ==
    /\ <<request, resp>>' # <<request, resp>>
    /\ request'.op \in ProtectedOps
    /\ ~(inv.pc = "committed" /\ inv'.pc = "idle")

\* C13: a request to a protected endpoint with a missing, invalid or expired
\* credential is answered 401 and nothing else happens: no entry and no
\* prediction is written or changed, and no invocation of POST /entries is
\* started, so no provider call is made.
C13_BadCredentialGives401 ==
    [][ (ServesProtectedRequest /\ request'.credentials \in BadCredentials) =>
          /\ resp'.op = request'.op
          /\ resp'.status = 401
          /\ resp'.calls = 0
          /\ UNCHANGED <<entries, predictions, inv, nextEntryId>> ]_vars

C13_Witness ==
    /\ request.op = "put" /\ request.credentials = "expired"
    /\ request.entry_id \in {e.id : e \in entries}
    /\ resp.op = "put" /\ resp.status = 401

\* C14: once a user is deleted, a request carrying an unexpired token that
\* was issued to that user is answered 401.
C14_DeletedUsersTokenRejected ==
    [][ ( /\ ServesProtectedRequest
          /\ \E t \in tokens : /\ t.sub = request'.credentials
                                /\ \A u \in users : u.id # t.uid )
        => (resp'.op = request'.op /\ resp'.status = 401) ]_vars

\* The body breaks one of the rules for the fields of an entry.
FailsValidation(p) ==
    \/ p.sleep_hours < 0 \/ p.sleep_hours > 24
    \/ p.screen_time < 0 \/ p.screen_time > 24
    \/ p.stress_level < 1 \/ p.stress_level > 10
    \/ p.workout_intensity \in {"", "   "}
    \/ p.supplement_intake \in {"", "   "}
    \/ p.date \notin 1..28

\* A step that serves the recorded request for the given endpoint, the
\* second step of POST /entries excluded.
Serves(op) ==
    /\ <<request, resp>>' # <<request, resp>>
    /\ request'.op = op
    /\ ~(inv.pc = "committed" /\ inv'.pc = "idle")

\* C15: a POST /entries by an authenticated caller whose body fails
\* validation is answered 422 and leaves no partial state: no entry and no
\* prediction is written, no invocation is started and no provider call made.
C15_InvalidBodyGives422 ==
    [][ ( /\ Serves("create")
          /\ request'.credentials \in {t.sub : t \in tokens}
          /\ FailsValidation(request'.payload) )
        => /\ resp'.op = "create"
           /\ resp'.status = 422
           /\ resp'.calls = 0
           /\ UNCHANGED <<entries, predictions, inv, nextEntryId>> ]_vars

C15_Witness ==
    /\ request.op = "create" /\ request.payload.stress_level = 11
    /\ request.credentials \in {t.sub : t \in tokens}
    /\ resp.op = "create" /\ resp.status = 422
    /\ entries # {}

\* C20: a PUT /entries/{id} by the owner with a valid body sets every field
\* of the body on that entry, is answered 200 with the new values, and leaves
\* the entry's id and user_id and every other entry as they were.
C20_PutReplacesEveryField ==
    [][ \A old \in entries :
          ( /\ Serves("put")
            /\ old.id = request'.entry_id
            /\ \E u \in users : /\ u.id = old.user_id
                                /\ u.email = request'.credentials
                                /\ u.email \in {t.sub : t \in tokens}
            /\ ~FailsValidation(request'.payload) )
          => LET p == request'.payload
                 new == [id |-> old.id, user_id |-> old.user_id,
                         date |-> p.date, sleep_hours |-> p.sleep_hours,
                         workout_intensity |-> p.workout_intensity,
                         supplement_intake |-> p.supplement_intake,
                         screen_time |-> p.screen_time,
                         stress_level |-> p.stress_level]
             IN  /\ resp'.op = "put" /\ resp'.status = 200
                 /\ resp'.body = [id |-> old.id] @@ p
                 /\ entries' = (entries \ {old}) \cup {new}
                 /\ UNCHANGED predictions ]_vars

C20_Witness ==
    /\ request.op = "put" /\ request.payload = EdgePayload
    /\ resp.op = "put" /\ resp.status = 200
    /\ \E e \in entries : e.id = request.entry_id /\ e.date = 28
    /\ \E f \in entries : f.id # request.entry_id /\ f.date = 20

\* The causes of failure of the last client call.
Unconfigured == ~client.env.set \/ client.env.value = <<>>

BadResponse ==
    \/ client.response.status_code # 200
    \/ client.response.body.kind \in {"text", "list"}
    \/ \A item \in client.response.body.items : item[1] # "prediction"
    \/ \A item \in client.response.body.items : item[1] # "recommendation"

\* C16: the provider client raises one error kind per cause: configuration
\* for a missing or empty MODEL_SERVICE_URL, timeout for a request timeout,
\* connection for a connect or other transport error, response for a non-200
\* status, a non-JSON or non-object body or a body without prediction or
\* recommendation; and each kind is raised for its own cause only.
C16_OneErrorKindPerCause ==
    client.pc = "done" =>
        LET kind == client.result.kind
            sent == ~Unconfigured
            answered == sent /\ client.transport = "response"
        IN  /\ Unconfigured => kind = "config"
            /\ (sent /\ client.transport = "timeout") => kind = "timeout"
            /\ (sent /\ client.transport \in {"connect_error", "request_error"})
                  => kind = "connection"
            /\ (answered /\ BadResponse) => kind = "response"
            /\ kind = "config" => Unconfigured
            /\ kind = "timeout" => (sent /\ client.transport = "timeout")
            /\ kind = "connection" =>
                  (sent /\ client.transport \in {"connect_error", "request_error"})
            /\ kind = "response" => (answered /\ BadResponse)

C16_Witness ==
    /\ client.pc = "done"
    /\ {"config", "timeout", "connection", "response"} \subseteq client.seen
    /\ client.result.kind = "response"
    /\ client.response.status_code = 200
    /\ client.response.body.kind = "dict"

\* C17: the provider client returns a payload only for a 200 response whose
\* body is an object with a numeric prediction and a non-empty string as
\* recommendation.
C17_SuccessOnlyForWellTypedBody ==
    (client.pc = "done" /\ client.result.kind = "ok") =>
        /\ client.response.status_code = 200
        /\ client.response.body.kind = "dict"
        /\ \E item \in client.response.body.items :
              item[1] = "prediction" /\ item[2].type = "number"
        /\ \E item \in client.response.body.items :
              /\ item[1] = "recommendation"
              /\ item[2].type = "string" /\ item[2].text # ""

\* C18: whatever the kind of provider failure, a POST /entries that committed
\* its entry is answered with the one 503 and its fixed detail, the entry is
\* kept and no prediction is stored.
C18_EveryFailureKindGivesTheSame503 ==
    \A kind \in FailureKinds :
        (resp.op = "create" /\ resp.events # <<>> /\ resp.provider = kind) =>
            /\ <<resp.status, resp.detail>> = <<503, "Model Service unavailable">>
            /\ EntryExists(resp.entry_id)
            /\ PredictionsOf(resp.entry_id) = {}

\* C19: a POST /entries that committed its entry sent one request to the
\* Model Service, a POST to the base URL followed by /predict, whose JSON
\* body has the feature values of the entry as submitted.
C19_PredictRequestCarriesSubmittedValues ==
    (CreateCommitted /\ resp.status # 500) =>
        \E i \in 1..Len(resp.requests) :
            /\ resp.requests[i].method = "POST"
            /\ resp.requests[i].url = ServiceUrl \o <<"/predict">>
            /\ resp.requests[i].json.sleep_hours = resp.body.sleep_hours
            /\ [id |-> resp.body.id] @@ resp.requests[i].json = resp.body

\* C21: a DELETE /entries/{id} that reaches the handler as the owner of an
\* existing entry is answered 204 and removes that entry and no other; a GET
\* of an id that no entry has is answered 404.
C21_DeleteRemovesOnlyThatEntry ==
    [][ /\ ( /\ resp' # resp /\ resp'.op = "delete"
             /\ \E e \in entries : /\ e.id = resp'.entry_id
                                   /\ e.user_id = resp'.user )
           => /\ resp'.status = 204
              /\ \A e \in entries' : e.id # resp'.entry_id
              /\ entries' = {e \in entries : e.id # resp'.entry_id}
              /\ UNCHANGED predictions
        /\ ( /\ resp' # resp /\ resp'.op = "get" /\ resp'.user # NoUser
             /\ \A e \in entries : e.id # resp'.entry_id )
           => resp'.status = 404 ]_vars

C21_Witness ==
    /\ resp.op = "delete" /\ resp.status = 204
    /\ \A e \in entries : e.id # resp.entry_id
    /\ \E e \in entries : e.user_id = resp.user

\* C22: no two users hold the same email.  A register request is answered
\* 201 or 400; a user is created only by a register request answered 201 and
\* only with an email that no user held, so a register request for an email
\* already registered is answered 400 and creates no user.
C22_EmailsUnique ==
    [][ /\ \A u, v \in users' : u.email = v.email => u = v
        /\ (resp' # resp /\ resp'.op = "register") =>
              \/ /\ resp'.status = 400
                 /\ resp'.detail = "Email already registered"
                 /\ users' = users
              \/ /\ resp'.status = 201
                 /\ \E u \in users' \ users : u.id = resp'.user
        /\ \A u \in users' \ users :
              /\ resp'.op = "register" /\ resp'.status = 201
              /\ users' = users \cup {u}
              /\ \A v \in users : v.email # u.email ]_vars

C22_Witness ==
    /\ resp.op = "register" /\ resp.status = 400
    /\ \E t \in tokens : /\ \A u \in users : u.id # t.uid
                         /\ \E u \in users : u.email = t.sub

\* C23: a session belongs to one request, and once that request is answered
\* the session is closed.
C23_SessionClosedWhenRequestEnds ==
    \A s \in sessions :
        /\ s.ended => ~s.open
        /\ \A t \in sessions : s.id = t.id => s.request = t.request

\* C24: two create_entry invocations that overlap are independent.  The
\* commit of each adds one entry with a new id, of its caller and with the
\* body it submitted, and leaves the other invocation alone; each is
\* answered with its own entry.
C24_ConcurrentCreatesIndependent ==
    [][ /\ (inv.pc = "idle" /\ inv'.pc = "committed") =>
              /\ entries' = entries \cup
                    {DailyEntry(inv'.entry_id, inv'.caller, AuthPayload)}
              /\ \A e \in entries : e.id # inv'.entry_id
              /\ inv2.pc = "committed" => inv2.entry_id # inv'.entry_id
              /\ inv2' = inv2
        /\ (inv2.pc = "idle" /\ inv2'.pc = "committed") =>
              /\ entries' = entries \cup
                    {DailyEntry(inv2'.entry_id, inv2'.caller, EdgePayload)}
              /\ \A e \in entries : e.id # inv2'.entry_id
              /\ inv.pc = "committed" => inv.entry_id # inv2'.entry_id
              /\ inv' = inv
        /\ (inv.pc = "committed" /\ inv'.pc = "idle" /\ resp' # resp) =>
              /\ resp'.status = 201 /\ resp'.user = inv.caller
              /\ resp'.body = [id |-> inv.entry_id] @@ AuthPayload
              /\ inv2' = inv2 /\ entries' = entries
        /\ (inv2.pc = "committed" /\ inv2'.pc = "idle") =>
              /\ resp'.status = 201 /\ resp'.user = inv2.caller
              /\ resp'.body = [id |-> inv2.entry_id] @@ EdgePayload
              /\ inv' = inv /\ entries' = entries ]_vars

\* Both invocations are past their commit, for the same user, and the
\* second was answered first.
C24_Witness ==
    /\ inv.pc = "committed" /\ inv2.pc = "idle"
    /\ resp.op = "create" /\ resp.status = 201 /\ resp.user = inv.caller
    /\ resp.entry_id > inv.entry_id
    /\ resp.body.date = 28

\* C25: from the commit of its entry on, an invocation's entry is stored
\* and visible to other requests: a GET /entries by its caller while the
\* invocation is in flight lists it; and no step, giving the invocation up
\* included, removes or changes a stored entry.
C25_EntryDurableFromCommit ==
    [][ /\ ( /\ inv.pc = "committed"
             /\ resp' # resp /\ resp'.op = "list" /\ resp'.status = 200
             /\ resp'.user = inv.caller )
           => \E i \in 1..Len(resp'.items) :
                  resp'.items[i] = [id |-> inv.entry_id] @@ AuthPayload
        /\ inv.pc = "committed" => \E e \in entries : e.id = inv.entry_id
        /\ (inv.pc = "committed" /\ inv'.pc = "idle" /\ resp' = resp)
              => entries' = entries
        /\ entries \subseteq entries' ]_vars

\* The entry of the invocation in flight was listed to its caller.
C25_Witness ==
    /\ inv.pc = "committed"
    /\ resp.op = "list" /\ resp.status = 200 /\ resp.user = inv.caller
    /\ \E i \in 1..Len(resp.items) : resp.items[i].id = inv.entry_id

\* C26: a POST /predict with a valid body, served while MODEL or
\* PREPROCESSING_PIPELINE is not loaded, is answered 503 with a detail that
\* starts with "Prediction service unavailable", followed by the load error
\* when one was recorded, and runs no inference.
C26_PredictUnavailableGives503 ==
    [][ ( /\ ml.pc = "imported" /\ ml'.served = ml.served + 1
          /\ (~ml.MODEL \/ ~ml.PREPROCESSING_PIPELINE)
          /\ ~request'.payload.extra
          /\ request'.payload.sleep_hours \in 0..12 )
        => /\ ml'.status = 503
           /\ ml'.detail[1] =
                "Prediction service unavailable: model artifacts are not loaded."
           /\ ml.MODEL_LOAD_ERROR # "none" =>
                 (Len(ml'.detail) = 2 /\ ml'.detail[2] = ml.MODEL_LOAD_ERROR)
           /\ ml.MODEL_LOAD_ERROR = "none" => Len(ml'.detail) = 1
           /\ ml'.inferences = ml.inferences ]_vars

\* The pipeline alone is missing, an error was recorded, and the request
\* was answered 503 after an earlier one had run an inference.
C26_Witness ==
    /\ ml.pc = "imported" /\ ml.MODEL /\ ~ml.PREPROCESSING_PIPELINE
    /\ ml.status = 503 /\ Len(ml.detail) = 2
    /\ ml.inferences = 1 /\ ml.served = 2

\* C28: a GET, PUT or DELETE /entries/{id} answered 401, 403 or 404 leaves
\* the stored entries and predictions as they were.
C28_RejectedRequestChangesNothing ==
    [][ ( /\ resp' # resp
          /\ resp'.op \in {"get", "put", "delete"}
          /\ resp'.status \in {401, 403, 404} )
        => UNCHANGED <<entries, predictions, nextEntryId>> ]_vars

\* A PUT by a user who does not own the entry was answered 403.
C28_Witness ==
    /\ resp.op = "put" /\ resp.status = 403
    /\ \E e \in entries : e.id = resp.entry_id /\ e.user_id # resp.user

\* C29: a request that carries a token issued at login to user U is served
\* as U or answered 401, whatever was registered, logged in or deleted in
\* between.  A POST /entries that starts an invocation is served as the
\* caller of that invocation; every other request as the user of its
\* response.
C29_TokenResolvesToItsUserOnly ==
    [][ ServesProtectedRequest =>
          \A t \in tokens :
              t.sub = request'.credentials =>
                  IF inv.pc = "idle" /\ inv'.pc = "committed"
                  THEN inv'.caller = t.uid
                  ELSE /\ resp'.op = request'.op
                       /\ resp'.status = 401 \/ resp'.user = t.uid ]_vars

\* C30: of register requests for one email that overlap, the one whose
\* insert comes first is answered 201 and creates the user; one whose insert
\* finds the email registered is answered 400 "Email already registered" and
\* creates no user.
C30_RegisterRaceLoserGets400 ==
    [][ \A r \in reg \ reg' :
          IF \E u \in users : u.email = r.email
          THEN /\ resp'.op = "register" /\ resp'.status = 400
               /\ resp'.detail = "Email already registered"
               /\ users' = users
          ELSE /\ resp'.op = "register" /\ resp'.status = 201
               /\ \E u \in users' \ users : u.email = r.email ]_vars
====
